---- MODULE Spec2Model ----
(***************************************************************************)
(* A model of monitor_deepseek_positions.py: the text functions            *)
(* (extract_unrealized_pnl, parse_positions) computed character by         *)
(* character over strings, and the polling loop of run_monitor as a state  *)
(* machine.                                                                *)
(*                                                                         *)
(* Texts are TLA+ strings.  A Python Optional is a sequence of length 0    *)
(* (None) or 1 (the value).  A float is a fixed-point integer counting     *)
(* units of 10^-FracDigits, exact for every number the inputs carry.       *)
(***************************************************************************)
EXTENDS Integers, Sequences, FiniteSets, TLC

VARIABLES
    pc,               \* position of run_monitor
    session,          \* the browser context and the browser: open, closed, abandoned
    ARGS,             \* the parsed command line (main)
    AVAILABLE,        \* RICH_AVAILABLE, PLYER_AVAILABLE, TKINTER_AVAILABLE
    last_text,        \* run_monitor: last_text
    last_unrealized,  \* run_monitor: last_unrealized
    text,             \* run_monitor: text, as fetched in this cycle
    current,          \* run_monitor: current
    curr_unreal,      \* run_monitor: curr_unreal
    delta,            \* run_monitor: delta, None when delta_msg is empty
    alert_msg,        \* run_monitor: alert_msg
    log,              \* the lines of positions-log.txt (their active_positions)
    printed,          \* the payloads printed to the terminal (their active_positions)
    snapshots,        \* calls of save_section_screenshot
    events,           \* change cycles entered ("Positions updated!" lines)
    status,           \* the latest status line printed
    polls,            \* iterations of the monitoring loop started
    ran,              \* the sinks that ran in the change cycle in progress
    failed,           \* the sinks that raised in the change cycle in progress
    observed,         \* history: the trimmed texts of the successive observations
    input,            \* the argument of the text function under check
    result            \* what the function returned, <<>> before the call

mvars == <<pc, session, ARGS, AVAILABLE, last_text, last_unrealized, text, current,
           curr_unreal, delta, alert_msg, log, printed, snapshots, events,
           status, polls, ran, failed, observed>>
fvars == <<input, result>>
vars == <<mvars, fvars>>

None == <<>>
Some(v) == <<v>>
IsNone(o) == o = <<>>
Val(o) == o[1]

(***************************************************************************)
(* Characters and strings                                                  *)
(***************************************************************************)
FracDigits == 2

RECURSIVE Pow10(_)
Pow10(n) == IF n = 0 THEN 1 ELSE 10 * Pow10(n - 1)

Scale == Pow10(FracDigits)

Char(s, i) == SubSeq(s, i, i)

Digits == "0123456789"
LowerLetters == "abcdefghijklmnopqrstuvwxyz"
UpperLetters == "ABCDEFGHIJKLMNOPQRSTUVWXYZ"

RECURSIVE IndexIn(_, _, _)
\* the position of character c in s at or after i, 0 when absent
IndexIn(s, c, i) ==
    IF i > Len(s) THEN 0
    ELSE IF Char(s, i) = c THEN i
    ELSE IndexIn(s, c, i + 1)

CharsOf(s) == { Char(s, i) : i \in 1..Len(s) }
DigitChars == CharsOf(Digits)
LetterChars == CharsOf(LowerLetters) \cup CharsOf(UpperLetters)
\* the upper-case letter of every lower-case one
UpperOf == [ c \in CharsOf(LowerLetters) |-> Char(UpperLetters, IndexIn(LowerLetters, c, 1)) ]
LowerOf == [ c \in CharsOf(UpperLetters) |-> Char(LowerLetters, IndexIn(UpperLetters, c, 1)) ]

IsDigit(c) == c \in DigitChars
DigitVal(c) == IndexIn(Digits, c, 1) - 1
IsSpace(c) == c \in {" ", "\t", "\n", "\r", "\f"}
IsWordChar(c) == c \in DigitChars \/ c \in LetterChars \/ c = "_"

UpperChar(c) == IF c \in DOMAIN UpperOf THEN UpperOf[c] ELSE c
LowerChar(c) == IF c \in DOMAIN LowerOf THEN LowerOf[c] ELSE c

RECURSIVE Upper(_)
\* str.upper()
Upper(s) ==
    IF Len(s) <= 1 THEN UpperChar(s)
    ELSE Upper(SubSeq(s, 1, Len(s) \div 2)) \o Upper(SubSeq(s, Len(s) \div 2 + 1, Len(s)))

RECURSIVE Title(_, _)
\* str.title(): a letter after a letter is lowered, any other letter is raised
Title(s, afterLetter) ==
    IF s = "" THEN ""
    ELSE LET c == Head(s)
         IN  (IF c \notin LetterChars THEN c
              ELSE IF afterLetter THEN LowerChar(c)
              ELSE UpperChar(c))
             \o Title(Tail(s), c \in LetterChars)

RECURSIVE LStrip(_)
LStrip(s) == IF s # "" /\ IsSpace(Head(s)) THEN LStrip(Tail(s)) ELSE s

RECURSIVE RStrip(_)
RStrip(s) ==
    IF s # "" /\ IsSpace(Char(s, Len(s)))
    THEN RStrip(SubSeq(s, 1, Len(s) - 1))
    ELSE s

\* str.strip()
Strip(s) == RStrip(LStrip(s))

RECURSIVE Remove(_, _)
\* s.replace(c, "") for every character c of the set cs
Remove(s, cs) ==
    IF Len(s) <= 1 THEN (IF s \in cs THEN "" ELSE s)
    ELSE Remove(SubSeq(s, 1, Len(s) \div 2), cs)
         \o Remove(SubSeq(s, Len(s) \div 2 + 1, Len(s)), cs)

\* does the literal lit stand in s at position i
LitAt(s, i, lit) ==
    /\ i + Len(lit) - 1 <= Len(s)
    /\ SubSeq(s, i, i + Len(lit) - 1) = lit

\* the same under re.IGNORECASE
LitAtIgnoreCase(s, i, lit) ==
    /\ i + Len(lit) - 1 <= Len(s)
    /\ UpperChar(Char(s, i)) = UpperChar(Head(lit))
    /\ Upper(SubSeq(s, i, i + Len(lit) - 1)) = Upper(lit)

RECURSIVE SkipSpace(_, _)
\* \s* from i: the first position at or after i that holds no whitespace
SkipSpace(s, i) ==
    IF i <= Len(s) /\ IsSpace(Char(s, i)) THEN SkipSpace(s, i + 1) ELSE i

RECURSIVE SkipDigits(_, _)
\* [0-9]* from i
SkipDigits(s, i) ==
    IF i <= Len(s) /\ IsDigit(Char(s, i)) THEN SkipDigits(s, i + 1) ELSE i

RECURSIVE SkipDigitsCommas(_, _)
\* [0-9,]* from i
SkipDigitsCommas(s, i) ==
    IF i <= Len(s) /\ (IsDigit(Char(s, i)) \/ Char(s, i) = ",")
    THEN SkipDigitsCommas(s, i + 1)
    ELSE i

\* [0-9,]+(?:\.[0-9]+)? from i: the position after the match, 0 when none
NumberEnd(s, i) ==
    LET j == SkipDigitsCommas(s, i)
        k == IF j <= Len(s) /\ Char(s, j) = "." THEN SkipDigits(s, j + 1) ELSE j
    IN  IF j = i THEN 0
        ELSE IF k > j + 1 THEN k
        ELSE j

RECURSIVE DigitsValue(_, _)
\* the number a run of digits writes, after the digits read so far
DigitsValue(s, acc) ==
    IF s = "" THEN acc ELSE DigitsValue(Tail(s), 10 * acc + DigitVal(Head(s)))

RECURSIVE FractionValue(_, _)
\* the fraction digits s in units of 10^-FracDigits, n digits still to read
FractionValue(s, n) ==
    IF n = 0 THEN 0
    ELSE IF s = "" THEN 0
    ELSE DigitVal(Head(s)) * Pow10(n - 1) + FractionValue(Tail(s), n - 1)

\* float(s): None for the ValueError
ParseFloat(s) ==
    LET t == Strip(s)
        signed == t # "" /\ Head(t) \in {"+", "-"}
        u == IF signed THEN Tail(t) ELSE t
        j == SkipDigits(u, 1)
        dot == j <= Len(u) /\ Char(u, j) = "."
        k == IF dot THEN SkipDigits(u, j + 1) ELSE j
        ndigits == (j - 1) + (IF dot THEN k - j - 1 ELSE 0)
        mag == DigitsValue(SubSeq(u, 1, j - 1), 0) * Scale
               + (IF dot THEN FractionValue(SubSeq(u, j + 1, k - 1), FracDigits) ELSE 0)
    IN  IF k <= Len(u) \/ ndigits = 0 THEN None
        ELSE Some(IF signed /\ Head(t) = "-" THEN 0 - mag ELSE mag)

Min(S) == CHOOSE x \in S : \A y \in S : x <= y

\* re.search: group 1 of the leftmost match, where matches[i] is group 1 of
\* the match that starts at position i, None when there is none
Search(matches) ==
    LET found == { i \in DOMAIN matches : ~IsNone(matches[i]) }
    IN  IF found = {} THEN None ELSE matches[Min(found)]

(***************************************************************************)
(* extract_unrealized_pnl                                                  *)
(***************************************************************************)
RECURSIVE SkipNotNewlineDollar(_, _)
\* [^\n$]* from i
SkipNotNewlineDollar(s, i) ==
    IF i <= Len(s) /\ Char(s, i) \notin {"\n", "$"}
    THEN SkipNotNewlineDollar(s, i + 1)
    ELSE i

\* One of the three patterns, tried with the label standing at i: the text of
\* group 1, None when the pattern does not match there.  [^\n$]* is greedy and
\* cannot cross a "$", so the "$" of the pattern is the first one after the
\* label; in the third pattern the run has already taken a sign written
\* before that "$", and [-+]? matches the empty string.
PnlPatternAt(up, i, pat) ==
    LET d == SkipNotNewlineDollar(up, i + Len(pat.label))
        k == SkipSpace(up, d + 1)
        e == NumberEnd(up, k)
    IN  IF ~LitAt(up, i, pat.label) THEN None
        ELSE IF d > Len(up) \/ Char(up, d) # "$" THEN None
        ELSE IF e = 0 THEN None
        ELSE Some(SubSeq(up, IF pat.dollar_in_group THEN d ELSE k, e - 1))

\* re.search(pat, up): group 1 of the leftmost match
PnlSearch(up, pat) ==
    Search([i \in 1..Len(up) |-> PnlPatternAt(up, i, pat)])

patterns ==
    << [label |-> "UNREALIZED", dollar_in_group |-> FALSE],
       [label |-> "UNREALISED", dollar_in_group |-> FALSE],
       [label |-> "UNREALIZED", dollar_in_group |-> TRUE] >>

\* val.replace("$", "").replace(",", "").strip(), then float(val)
PnlGroupValue(val) == ParseFloat(Strip(Remove(val, {"$", ","})))

RECURSIVE PnlTryPatterns(_, _)
\* the for loop: the first pattern that matches and parses returns
PnlTryPatterns(up, n) ==
    IF n > Len(patterns) THEN None
    ELSE LET m == PnlSearch(up, patterns[n])
         IN  IF ~IsNone(m) /\ ~IsNone(PnlGroupValue(Val(m)))
             THEN PnlGroupValue(Val(m))
             ELSE PnlTryPatterns(up, n + 1)

extract_unrealized_pnl(t) ==
    IF t = "" THEN None ELSE PnlTryPatterns(Upper(t), 1)

(***************************************************************************)
(* parse_positions                                                         *)
(***************************************************************************)
\* Entry Time:\s*\d+:\d+:\d+ with re.IGNORECASE, tried at i: the position after
\* the match, 0 when there is none
EntryTimeEnd(t, i) ==
    LET a == SkipSpace(t, i + Len("Entry Time:"))
        b == SkipDigits(t, a)
        c == SkipDigits(t, b + 1)
        d == SkipDigits(t, c + 1)
    IN  IF ~LitAtIgnoreCase(t, i, "Entry Time:") THEN 0
        ELSE IF b = a \/ ~LitAt(t, b, ":") THEN 0
        ELSE IF c = b + 1 \/ ~LitAt(t, c, ":") THEN 0
        ELSE IF d = c + 1 THEN 0
        ELSE d

RECURSIVE SplitFrom(_, _, _)
\* the pieces of t from position b on, cut at the matches that start in starts
SplitFrom(t, b, starts) ==
    LET next == { i \in starts : i >= b }
    IN  IF next = {} THEN << SubSeq(t, b, Len(t)) >>
        ELSE << SubSeq(t, b, Min(next) - 1) >>
             \o SplitFrom(t, EntryTimeEnd(t, Min(next)), starts)

\* re.split(r"Entry Time:\s*\d+:\d+:\d+", text, flags=re.IGNORECASE): the pieces
\* of t between the successive leftmost matches
SplitEntryTime(t) ==
    SplitFrom(t, 1, { i \in 1..Len(t) : EntryTimeEnd(t, i) # 0 })

\* the slice forgotten: the text before the first delimiter is a block too
position_blocks_unsliced(t) == SplitEntryTime(t)

\* position_blocks[1:]
position_blocks(t) == Tail(SplitEntryTime(t))

symbols_pattern ==
    { "BTC", "ETH", "SOL", "XRP", "BNB", "DOGE", "ADA", "AVAX", "TON", "LTC",
      "DOT", "LINK", "ATOM", "APE", "NEAR", "OP", "ARB", "FTM", "SUI", "SEI",
      "PEPE", "SHIB", "XLM", "ETC", "BCH", "APT", "TIA", "INJ", "RUNE", "UNI",
      "MATIC", "POL", "WIF", "ORDI" }

\* Side:\s*(LONG|SHORT) at i, matched case-sensitively: group 1
SideAt(s, i) ==
    LET k == SkipSpace(s, i + Len("Side:"))
    IN  IF ~LitAt(s, i, "Side:") THEN None
        ELSE IF LitAt(s, k, "LONG") THEN Some("LONG")
        ELSE IF LitAt(s, k, "SHORT") THEN Some("SHORT")
        ELSE None

\* Entry Price:\s*\$?([0-9,]+(?:\.[0-9]+)?) at i, matched case-sensitively
EntryPriceAt(s, i) ==
    LET k == SkipSpace(s, i + Len("Entry Price:"))
        n == IF LitAt(s, k, "$") THEN k + 1 ELSE k
        e == NumberEnd(s, n)
    IN  IF ~LitAt(s, i, "Entry Price:") \/ e = 0 THEN None
        ELSE Some(SubSeq(s, n, e - 1))

\* Leverage:\s*(\d+)\s*X at i, matched case-sensitively
LeverageAt(s, i) ==
    LET k == SkipSpace(s, i + Len("Leverage:"))
        e == SkipDigits(s, k)
    IN  IF ~LitAt(s, i, "Leverage:") \/ e = k THEN None
        ELSE IF ~LitAt(s, SkipSpace(s, e), "X") THEN None
        ELSE Some(SubSeq(s, k, e - 1))

\* Unrealized P&L:\s*([+-]?\$\s*[0-9,]+(?:\.[0-9]+)?) at i, with re.IGNORECASE
PnlAt(s, i) ==
    LET k == SkipSpace(s, i + Len("Unrealized P&L:"))
        d == IF LitAt(s, k, "+") \/ LitAt(s, k, "-") THEN k + 1 ELSE k
        e == NumberEnd(s, SkipSpace(s, d + 1))
    IN  IF ~LitAtIgnoreCase(s, i, "Unrealized P&L:") THEN None
        ELSE IF ~LitAt(s, d, "$") \/ e = 0 THEN None
        ELSE Some(SubSeq(s, k, e - 1))

RECURSIVE WordEnd(_, _)
WordEnd(s, i) ==
    IF i <= Len(s) /\ IsWordChar(Char(s, i)) THEN WordEnd(s, i + 1) ELSE i

\* \b(symbols_pattern)\b at i: between two word boundaries the match is a whole
\* word, so at most one alternative fits
SymbolAt(s, i) ==
    LET e == WordEnd(s, i)
    IN  IF i > 1 /\ IsWordChar(Char(s, i - 1)) THEN None
        ELSE IF e = i \/ SubSeq(s, i, e - 1) \notin symbols_pattern THEN None
        ELSE Some(SubSeq(s, i, e - 1))

\* the price heuristic of lines 273-287, price in units of 10^-FracDigits
SymbolFromPrice(price) ==
    IF 2 * price < Scale THEN ""
    ELSE IF price < 10 * Scale THEN "SOL"
    ELSE IF 1000 * Scale <= price /\ price < 5000 * Scale THEN "ETH"
    ELSE IF 50000 * Scale <= price /\ price < 150000 * Scale THEN "BTC"
    ELSE ""

\* One iteration of the for loop over the blocks: whether float() raised at
\* line 274, whether the block was appended, and the dict it appended.
ParseBlock(block) ==
    LET block_upper == Upper(block)
        side_m == Search([i \in 1..Len(block_upper) |-> SideAt(block_upper, i)])
        entry_price_m == Search([i \in 1..Len(block_upper) |-> EntryPriceAt(block_upper, i)])
        leverage_m == Search([i \in 1..Len(block_upper) |-> LeverageAt(block_upper, i)])
        pnl_m == Search([i \in 1..Len(block_upper) |-> PnlAt(block_upper, i)])
        sym_m == Search([i \in 1..Len(block_upper) |-> SymbolAt(block_upper, i)])
        infer == IsNone(sym_m) /\ ~IsNone(entry_price_m)
        price == IF infer THEN ParseFloat(Remove(Val(entry_price_m), {","})) ELSE None
        symbol == IF ~IsNone(sym_m) THEN Val(sym_m)
                  ELSE IF infer /\ ~IsNone(price) THEN SymbolFromPrice(Val(price))
                  ELSE ""
        pnl_text == IF IsNone(pnl_m) THEN "" ELSE Strip(Remove(Val(pnl_m), {" "}))
    IN  [ raised |-> infer /\ IsNone(price),
          valid |-> ~IsNone(pnl_m) \/ ~IsNone(side_m),
          row |-> [ symbol |-> symbol,
                    side |-> IF IsNone(side_m) THEN "" ELSE Title(Val(side_m), FALSE),
                    leverage |-> IF IsNone(leverage_m) THEN "" ELSE Val(leverage_m) \o "X",
                    pnl_value |-> IF pnl_text = "" THEN None
                                  ELSE ParseFloat(Remove(pnl_text, {"$", ",", "+"})),
                    pnl_text |-> pnl_text,
                    entry_price |-> IF IsNone(entry_price_m) THEN "" ELSE Val(entry_price_m) ] ]

RECURSIVE AppendValid(_)
\* results after the for loop, from what each iteration did
AppendValid(parsed) ==
    IF parsed = << >> THEN << >>
    ELSE (IF Head(parsed).valid THEN << Head(parsed).row >> ELSE << >>)
         \o AppendValid(Tail(parsed))

\* the negation forgotten: ascending in pnl_value
SortKeyAscending(r) ==
    << IF IsNone(r.pnl_value) THEN 1 ELSE 0,
       IF IsNone(r.pnl_value) THEN 0 ELSE Val(r.pnl_value) >>

\* the sort key (r["pnl_value"] is None, -(r["pnl_value"] or 0.0))
SortKey(r) ==
    << IF IsNone(r.pnl_value) THEN 1 ELSE 0,
       IF IsNone(r.pnl_value) THEN 0 ELSE 0 - Val(r.pnl_value) >>

KeyLess(a, b) == a[1] < b[1] \/ (a[1] = b[1] /\ a[2] < b[2])

RECURSIVE InsertSorted(_, _)
\* x put after every row whose key is not greater than its own
InsertSorted(sorted, x) ==
    IF sorted = << >> THEN << x >>
    ELSE IF KeyLess(SortKey(x), SortKey(Head(sorted))) THEN << x >> \o sorted
    ELSE << Head(sorted) >> \o InsertSorted(Tail(sorted), x)

RECURSIVE StableSort(_, _)
\* list.sort(key=...): stable, ascending in the key
StableSort(rows, sorted) ==
    IF rows = << >> THEN sorted
    ELSE StableSort(Tail(rows), InsertSorted(sorted, Head(rows)))

\* results before the sort at line 312
results_unsorted(t) ==
    LET blocks == IF t = "" THEN << >> ELSE position_blocks(t)
    IN  AppendValid([ n \in 1..Len(blocks) |-> ParseBlock(blocks[n]) ])

\* parse_positions(text): the list it returns, and whether it raised instead
parse_positions(t) ==
    LET blocks == IF t = "" THEN << >> ELSE position_blocks(t)
        parsed == [ n \in 1..Len(blocks) |-> ParseBlock(blocks[n]) ]
    IN  [ raised |-> \E n \in 1..Len(parsed) : parsed[n].raised,
          positions |-> StableSort(AppendValid(parsed), << >>) ]

(***************************************************************************)
(* find_active_positions_container.  A page is the path from the innermost *)
(* element that holds the header phrase up to the root: levels[1] is that  *)
(* element, levels[k+1] its k-th ancestor, the last level the root.  Each  *)
(* level has its tag, whether it is taller than its child on the path, and *)
(* the inner texts of its following siblings; an element's inner text is   *)
(* the texts of its children, one per line.                                *)
(***************************************************************************)
\* line 92: t.includes(lit)
Includes(t, lit) == \E i \in 1..Len(t) : LitAt(t, i, lit)

RECURSIVE JoinLines(_)
\* the inner text of an element whose children have these inner texts
JoinLines(texts) ==
    IF texts = << >> THEN ""
    ELSE LET rest == JoinLines(Tail(texts))
         IN  IF Head(texts) = "" THEN rest
             ELSE IF rest = "" THEN Head(texts)
             ELSE Head(texts) \o "\n" \o rest

RECURSIVE innerText(_, _)
\* el.innerText of the element at level k of the path
innerText(page, k) ==
    IF k = 1 THEN page.text
    ELSE JoinLines(<<innerText(page, k - 1)>> \o page.levels[k - 1].after)

\* line 89: getText of the element at level k, and of a sibling's inner text
getText(page, k) == Strip(innerText(page, k))
getTextOf(t) == Strip(t)

\* lines 90-93: the elements whose textContent, upper-cased, includes the
\* phrase; they are the innermost such element and its ancestors
headerCandidates(page) ==
    IF Includes(Upper(page.text), "ACTIVE POSITIONS")
    THEN 1..Len(page.levels) ELSE {}

RECURSIVE Height(_, _)
\* getBoundingClientRect().height of the element at level k, in steps
Height(page, k) ==
    IF k = 1 THEN 1
    ELSE Height(page, k - 1) + (IF page.levels[k].taller THEN 1 ELSE 0)

\* lines 96-97: the candidate of smallest height; the sort is stable and the
\* candidates are in document order, ancestors first, so that of equal
\* heights the outermost element is taken
header(page) ==
    LET least == Min({ Height(page, k) : k \in headerCandidates(page) })
    IN  CHOOSE k \in headerCandidates(page) :
            /\ Height(page, k) = least
            /\ \A j \in headerCandidates(page) : Height(page, j) = least => j <= k

\* lines 101 and 111: the first of the following siblings of the element at
\* level k whose text has 40 characters or more, 0 when there is none
Substantial(page, k) ==
    LET after == page.levels[k].after
        long == { i \in 1..Len(after) : ~(Len(getTextOf(after[i])) < 40) }
    IN  IF long = {} THEN 0 ELSE Min(long)

\* the search given up after the second ancestor
AncestorWithSiblingTwoLevels(page, h) ==
    LET having == { k \in (h + 1)..Len(page.levels) :
                      k <= h + 2 /\ Substantial(page, k) # 0 }
    IN  IF having = {} THEN 0 ELSE Min(having)

\* lines 108-117: the ancestors of the header, from its parent to the root,
\* the first of them with a substantial following sibling; 0 when none has one
AncestorWithSibling(page, h) ==
    LET having == { k \in (h + 1)..Len(page.levels) : Substantial(page, k) # 0 }
    IN  IF having = {} THEN 0 ELSE Min(having)

\* line 120: header.closest('section,article,div') || header
closest(page, h) ==
    LET boxes == { k \in h..Len(page.levels) :
                     page.levels[k].tag \in {"section", "article", "div"} }
    IN  IF boxes = {} THEN h ELSE Min(boxes)

Marked == "[data-active-positions=\"1\"]"

\* lines 87-123: what the script returns
script(page) ==
    IF headerCandidates(page) = {} THEN [text |-> "", selector |-> ""]
    ELSE LET h == header(page)
             p == AncestorWithSibling(page, h)
         IN  IF Substantial(page, h) # 0
             THEN [text |-> getTextOf(page.levels[h].after[Substantial(page, h)]),
                   selector |-> Marked]
             ELSE IF p # 0
             THEN [text |-> getTextOf(page.levels[p].after[Substantial(page, p)]),
                   selector |-> Marked]
             ELSE [text |-> getText(page, closest(page, h)), selector |-> Marked]

\* lines 125-135: the script's answer, the text of the body when the
\* evaluation raises, and the empty text when that raises too
find_active_positions_container(page, evaluate_ok, inner_text_ok) ==
    IF evaluate_ok
    THEN LET res == script(page)
         IN  [text |-> res.text,
              selector |-> IF res.selector = "" THEN None ELSE Some(res.selector)]
    ELSE IF inner_text_ok
    THEN [text |-> innerText(page, Len(page.levels)), selector |-> None]
    ELSE [text |-> "", selector |-> None]

(***************************************************************************)
(* The text functions on their own: the inputs are put together from       *)
(* labelled fields, and one call returns the result.                       *)
(***************************************************************************)
MaxBlocks == 3

\* the monitor's variables while a text function is checked on its own
MonitorIdle ==
    /\ pc = "idle" /\ session = "none"
    /\ ARGS = [visual |-> FALSE, notify |-> FALSE, sound |-> FALSE, popup |-> FALSE]
    /\ AVAILABLE = [rich |-> FALSE, plyer |-> FALSE, tkinter |-> FALSE]
    /\ last_text = None /\ last_unrealized = None
    /\ text = "" /\ current = "" /\ curr_unreal = None
    /\ delta = None /\ alert_msg = [generic |-> TRUE, delta |-> None]
    /\ log = << >> /\ printed = << >> /\ snapshots = 0
    /\ events = 0 /\ status = "" /\ polls = 0
    /\ ran = {} /\ failed = {} /\ observed = << >>

PnlLabels == { "Unrealized P&L:", "unrealised pnl", "UNREALIZED", "Realized P&L:" }
PnlGaps == { " ", "\n", " total " }
PnlSigns == { "", "-", "+" }
\* a dollar amount as written, and the number it writes, in hundredths
PnlAmounts ==
    { [text |-> "$120.50", hundredths |-> 12050],
      [text |-> "$43.20", hundredths |-> 4320],
      [text |-> "$1,234.56", hundredths |-> 123456],
      [text |-> "$ 7", hundredths |-> 700] }
PnlNonAmounts == { "$,", "12", "" }
PnlTails == { "", "\nUnrealized P&L: -$9.99", " $1" }

PnlInputs ==
    { l \o g \o sg \o a \o tl :
        l \in PnlLabels, g \in PnlGaps, sg \in PnlSigns,
        a \in { m.text : m \in PnlAmounts } \cup PnlNonAmounts, tl \in PnlTails }

InitPnl ==
    /\ MonitorIdle
    /\ input \in PnlInputs
    /\ result = None

CallExtract ==
    /\ pc = "idle" /\ IsNone(result)
    /\ result' = Some(extract_unrealized_pnl(input))
    /\ UNCHANGED <<mvars, input>>

SpecPnl == InitPnl /\ [][CallExtract]_vars

ParseHeaders == { "", "ACTIVE POSITIONS BTC Unrealized P&L: $9 " }
ParseDelimiters == { "Entry Time: 1:02:03 ", "entry time:12:34:56\n" }
SortBodies ==
    { "Unrealized P&L: +$5 ", "ETH Unrealized P&L: $5.00 ", "Unrealized P&L: -$7 ",
      "Unrealized P&L: $, ", "SOL Unrealized P&L: -$\t5 ", "no fields " }

RECURSIVE BlockTexts(_, _)
\* the texts of at most n blocks, each begun by the delimiter d
BlockTexts(d, n) ==
    IF n = 0 THEN { "" }
    ELSE BlockTexts(d, n - 1)
         \cup { t \o d \o b : t \in BlockTexts(d, n - 1), b \in SortBodies }

SideFields == { "", "Side: LONG ", "side: short " }
PriceFields ==
    { "", "Entry Price: $1,234.56 ", "Entry Price: 75000 ", "Entry Price: 2500 ",
      "Entry Price: 150000 ", "Entry Price: 0.1 ", "Entry Price: 7.5 " }
LeverageFields == { "", "Leverage: 10X " }
PnlFields == { "", "Unrealized P&L: +$56.78", "Unrealized P&L: -$3", "Unrealized P&L: $," }
TickerFields == { "", "DOGE ", "BTCUSD ", "Symbol: eth " }

FieldInputs ==
    { "Entry Time: 9:15:00 " \o k \o sd \o pr \o lv \o pl :
        k \in TickerFields, sd \in SideFields, pr \in PriceFields,
        lv \in LeverageFields, pl \in PnlFields }

ParseInputs ==
    { h \o t : h \in ParseHeaders,
               t \in UNION { BlockTexts(d, MaxBlocks) : d \in ParseDelimiters } }
    \cup FieldInputs

InitParse ==
    /\ MonitorIdle
    /\ input \in ParseInputs
    /\ result = None

CallParse ==
    /\ pc = "idle" /\ IsNone(result)
    /\ result' = Some(parse_positions(input))
    /\ UNCHANGED <<mvars, input>>

SpecParse == InitParse /\ [][CallParse]_vars

MaxDepth == 4

HeaderTexts == { "ACTIVE POSITIONS", " Active Positions (2) ", "Positions" }
Text39 == "BTC LONG 10X Unrealized P&L: +$43.20 ok"
Text40 == "ETH SHORT 5X Unrealized P&L: -$120.50 ok"
\* the following siblings of an element: none, one whose text is short of 40
\* characters once trimmed, or an empty one and then one of 40 characters
SiblingTexts == { << >>, << "  " \o Text39 \o "\n" >>, << " ", Text40 >> }

\* the element holding the phrase, the element around it (of the same height
\* or taller), and the ancestors above these, each taller than its child
InnerLevels == { [tag |-> "h2", taller |-> FALSE, after |-> a] : a \in SiblingTexts }
WrapLevels ==
    { [tag |-> g, taller |-> t, after |-> a] :
        g \in {"div", "span"}, t \in BOOLEAN, a \in SiblingTexts }
OuterLevels ==
    { [tag |-> g, taller |-> TRUE, after |-> a] :
        g \in {"div", "span"}, a \in SiblingTexts }
RootLevel == [tag |-> "html", taller |-> TRUE, after |-> << >>]

RECURSIVE Paths(_)
\* the paths of n levels under the root, n >= 1
Paths(n) ==
    IF n = 1 THEN { <<l>> : l \in InnerLevels }
    ELSE { Append(q, l) : q \in Paths(n - 1),
                          l \in IF n = 2 THEN WrapLevels ELSE OuterLevels }

Pages ==
    { [text |-> t, levels |-> Append(q, RootLevel)] :
        t \in HeaderTexts, q \in UNION { Paths(n) : n \in 1..MaxDepth } }

InitLocate ==
    /\ MonitorIdle
    /\ input \in Pages
    /\ result = None

CallLocate ==
    /\ pc = "idle" /\ IsNone(result)
    /\ \E evaluate_ok, inner_text_ok \in BOOLEAN :
          result' = Some([ evaluated |-> evaluate_ok,
                           found |-> find_active_positions_container(
                                         input, evaluate_ok, inner_text_ok) ])
    /\ UNCHANGED <<mvars, input>>

SpecLocate == InitLocate /\ [][CallLocate]_vars

(***************************************************************************)
(* run_monitor: the polling loop.  The page and the collaborators are the  *)
(* environment: a navigation succeeds or raises, the section locator       *)
(* returns one of PageTexts, a sink succeeds or raises.                    *)
(***************************************************************************)
MaxPolls == 2
MaxSinkFailures == 1

PageTexts ==
    { "",
      "Unrealized P&L: -$120.50",
      "  Unrealized P&L: -$120.50\n",
      "Entry Time: 1:02:03 BTC Unrealized P&L: +$43.20" }

\* the sinks of a change cycle, in the order of lines 582-657
SinkOrder == << "visual", "log", "snapshot", "html", "notify", "sound", "popup" >>
Sinks == { SinkOrder[i] : i \in 1..Len(SinkOrder) }
\* the sinks that call parse_positions outside every try statement (lines 587, 632)
ParsesUnguarded == { "visual", "popup" }

\* main: the flags as parsed, --notify switched on when no alert is chosen
ParsedArgs(visual, notify, sound, popup) ==
    [ visual |-> visual,
      notify |-> notify \/ ~(notify \/ sound \/ popup),
      sound |-> sound,
      popup |-> popup ]

\* the sinks a change cycle runs under the flags and the optional imports
Enabled(s) ==
    CASE s = "visual" -> ARGS.visual /\ AVAILABLE.rich
      [] s = "notify" -> ARGS.notify /\ AVAILABLE.plyer
      [] s = "sound" -> ARGS.sound
      [] s = "popup" -> ARGS.popup /\ AVAILABLE.tkinter
      [] OTHER -> TRUE

\* the optional imports of lines 33-52: all of them succeed, or none does
ImportCases == { [ m \in {"rich", "plyer", "tkinter"} |-> b ] : b \in BOOLEAN }

NoAlert == [generic |-> TRUE, delta |-> None]

Init ==
    /\ pc = "goto" /\ session = "open"
    /\ ARGS \in { ParsedArgs(v, n, s, p) : v, n, s, p \in BOOLEAN }
    /\ AVAILABLE \in ImportCases
    /\ last_text = None /\ last_unrealized = None
    /\ text = "" /\ current = "" /\ curr_unreal = None
    /\ delta = None /\ alert_msg = NoAlert
    /\ log = << >> /\ printed = << >> /\ snapshots = 0
    /\ events = 0 /\ status = "" /\ polls = 0
    /\ ran = {} /\ failed = {} /\ observed = << >>
    /\ input = "" /\ result = None

\* lines 489-496: the initial navigation, retried after 30 s for as long as it fails
InitialGoto ==
    /\ pc = "goto"
    /\ \E ok \in BOOLEAN :
          /\ pc' = IF ok THEN "scrape" ELSE "goto"
          /\ status' = IF ok THEN status ELSE "Initial load failed, retrying in 30s..."
    /\ UNCHANGED <<ARGS, AVAILABLE, session, last_text, last_unrealized, text, current,
                   curr_unreal, delta, alert_msg, log, printed, snapshots, events,
                   polls, ran, failed, observed, fvars>>

\* the initial payload appended to the log file as well
InitialLogWritten(lg, payload) == Append(lg, payload)

\* lines 529-534: the initial payload is printed and not written to LOG_PATH
InitialLog(lg, payload) == lg

\* lines 520-537: the initial scrape.  The diagnostic screenshot of line 524 is
\* outside every try statement, and so is the whole initial phase: its
\* exception leaves run_monitor without the finally block of lines 665-667.
\* save_section_screenshot (line 537) swallows its own failures.
InitialScrape ==
    /\ pc = "scrape"
    /\ \E t \in PageTexts, debug_ok \in BOOLEAN :
          /\ text' = t
          /\ IF Strip(t) = "" /\ ~debug_ok
             THEN /\ pc' = "raised"
                  /\ session' = "abandoned"
                  /\ UNCHANGED <<last_text, last_unrealized, printed, snapshots,
                                 observed, status, log>>
             ELSE /\ last_text' = Some(t)
                  /\ session' = session
                  /\ log' = InitialLog(log, Strip(t))
                  /\ last_unrealized' = extract_unrealized_pnl(t)
                  /\ printed' = Append(printed, Strip(t))
                  /\ observed' = Append(observed, Strip(t))
                  /\ snapshots' = snapshots + 1
                  /\ status' = IF Strip(t) = "" THEN "No ACTIVE POSITIONS content detected"
                               ELSE "Monitor Started"
                  /\ pc' = "sleep"
    /\ UNCHANGED <<ARGS, AVAILABLE, current, curr_unreal, delta, alert_msg,
                   events, polls, ran, failed, fvars>>

\* lines 542-549: the sleep and the reload; a failed reload goes to the backoff
Reload ==
    /\ pc = "sleep"
    /\ polls < MaxPolls
    /\ polls' = polls + 1
    /\ \E ok \in BOOLEAN :
          /\ pc' = IF ok THEN "fetch" ELSE "backoff"
          /\ status' = IF ok THEN status ELSE "Reload failed, retrying in 30s..."
    /\ UNCHANGED <<ARGS, AVAILABLE, session, last_text, last_unrealized, text, current,
                   curr_unreal, delta, alert_msg, log, printed, snapshots, events,
                   ran, failed, observed, fvars>>

\* a failed retry waits and retries again
AfterRetryRepeats(ok) == IF ok THEN "fetch" ELSE "backoff"

\* lines 550-556: after the retry the cycle goes on, or is given up (continue)
AfterRetry(ok) == IF ok THEN "fetch" ELSE "sleep"

\* lines 549-556: the 30 s backoff and the one retry; a second failure skips the cycle
RetryGoto ==
    /\ pc = "backoff"
    /\ \E ok \in BOOLEAN :
          /\ pc' = AfterRetry(ok)
          /\ status' = IF ok THEN status
                       ELSE "Navigation retry failed; skipping this cycle."
    /\ UNCHANGED <<ARGS, AVAILABLE, session, last_text, last_unrealized, text, current,
                   curr_unreal, delta, alert_msg, log, printed, snapshots, events,
                   polls, ran, failed, observed, fvars>>

\* the stored text compared as it was stored, the fetched text as it was fetched
ChangedUntrimmed(cur, raw, last) == raw # Val(last)

\* line 566: current != previous, where current is the fetched text trimmed
\* (line 561) and previous the stored text trimmed (line 562)
Changed(cur, raw, last) == cur # Strip(Val(last))

\* lines 569-572: the delta, None when delta_msg stays empty
ComputeDelta(curr, last) ==
    IF ~IsNone(last) /\ ~IsNone(curr) THEN Some(Val(curr) - Val(last)) ELSE None

\* lines 558-581 and 661-662: the section text is fetched and compared; a change
\* computes the delta and prints the payload, no change prints the heartbeat
Fetch ==
    /\ pc = "fetch"
    /\ \E t \in PageTexts :
          /\ text' = t
          /\ current' = Strip(t)
          /\ IF IsNone(last_text)
             THEN /\ pc' = "sleep"
                  /\ status' = "Initialized."
                  /\ UNCHANGED <<curr_unreal, delta, alert_msg, printed, events>>
             ELSE IF Changed(Strip(t), t, last_text)
             THEN /\ curr_unreal' = extract_unrealized_pnl(Strip(t))
                  /\ delta' = ComputeDelta(curr_unreal', last_unrealized)
                  /\ alert_msg' = [generic |-> IsNone(delta'), delta |-> delta']
                  /\ printed' = Append(printed, Strip(t))
                  /\ events' = events + 1
                  /\ status' = "Positions updated!"
                  /\ pc' = "sinks"
             ELSE /\ status' = "no change"
                  /\ pc' = "sleep"
                  /\ UNCHANGED <<curr_unreal, delta, alert_msg, printed, events>>
    /\ UNCHANGED <<ARGS, AVAILABLE, session, last_text, last_unrealized, log, snapshots,
                   polls, ran, failed, observed, fvars>>

\* the place of a sink in the cycle
Position(s) == CHOOSE i \in 1..Len(SinkOrder) : SinkOrder[i] = s

\* The sinks among raising whose exception no try statement catches.  Only the
\* log write, the snapshot, the HTML export, the notification, the sound and the
\* popup thread are inside one; render_positions_table (line 589) is not, nor is a
\* parse_positions that raises at lines 587 and 632.
Escaping(raising, parser_raises) ==
    (raising \cap {"visual"})
    \cup (IF parser_raises THEN { s \in ParsesUnguarded : Enabled(s) } ELSE {})

\* the payload written with the text as fetched
LogPayloadUntrimmed(cur, raw) == raw

\* lines 575-579 and 594: the active_positions of the line written is current
LogPayload(cur, raw) == cur

\* lines 582-657: the sinks of one change cycle, run in order.  An exception
\* that escapes passes the finally block of lines 665-667, which closes the
\* context and the browser.  bad is the set of
\* sinks that raise if they are called; the table is rendered only when
\* parse_positions returns a position.
RunSinks ==
    /\ pc = "sinks"
    /\ \E parsed \in { parse_positions(current) },
          bad \in { b \in SUBSET Sinks : Cardinality(b) <= MaxSinkFailures } :
          LET called == { s \in Sinks : Enabled(s) }
                        \ (IF parsed.positions = << >> THEN {"visual"} ELSE {})
              escaping == Escaping(bad \cap called, parsed.raised)
              stop == IF escaping = {} THEN Len(SinkOrder) + 1
                      ELSE Min({ Position(s) : s \in escaping })
              done == { s \in called : Position(s) <= stop }
          IN  /\ ran' = done
              /\ failed' = (done \cap bad) \cup (done \cap escaping)
              /\ log' = IF "log" \in done \ bad
                        THEN Append(log, LogPayload(current, text)) ELSE log
              /\ snapshots' = IF "snapshot" \in done THEN snapshots + 1 ELSE snapshots
              /\ pc' = IF escaping = {} THEN "update" ELSE "raised"
              /\ session' = IF escaping = {} THEN session ELSE "closed"
    /\ UNCHANGED <<ARGS, AVAILABLE, last_text, last_unrealized, text, current,
                   curr_unreal, delta, alert_msg, printed, events, status, polls,
                   observed, fvars>>

\* the stored text taken as fetched
NextTextUntrimmed(cur, raw) == Some(raw)

\* line 659: last_text = current
NextText(cur, raw) == Some(cur)

\* the stored aggregate P&L overwritten even when none was extracted
NextUnrealizedOverwrite(curr, last) == curr

\* line 660: the stored aggregate P&L after a change
NextUnrealized(curr, last) == IF ~IsNone(curr) THEN curr ELSE last

\* lines 659-660: the stored text and the stored aggregate P&L are overwritten,
\* and the cycle is over
UpdateState ==
    /\ pc = "update"
    /\ last_text' = NextText(current, text)
    /\ last_unrealized' = NextUnrealized(curr_unreal, last_unrealized)
    /\ observed' = Append(observed, current)
    /\ ran' = {} /\ failed' = {}
    /\ pc' = "sleep"
    /\ UNCHANGED <<ARGS, AVAILABLE, session, text, current, curr_unreal, delta, alert_msg,
                   log, printed, snapshots, events, status, polls, fvars>>

Next ==
    \/ InitialGoto
    \/ InitialScrape
    \/ Reload
    \/ RetryGoto
    \/ Fetch
    \/ RunSinks
    \/ UpdateState

Spec == Init /\ [][Next]_vars

\* An external interrupt.  It reaches run_monitor as KeyboardInterrupt or, when
\* asyncio cancels the task, as CancelledError; no except Exception clause
\* catches either.  In the monitoring loop (lines 540-667) the first is caught
\* at line 663 and both pass the finally block; before the loop (lines 489-537)
\* no try statement with a finally block is open.
Interrupt ==
    /\ pc \in {"goto", "scrape", "sleep", "backoff", "fetch", "sinks", "update"}
    /\ pc' = "stopped"
    /\ IF pc \in {"goto", "scrape"}
       THEN session' = "abandoned" /\ status' = status
       ELSE /\ session' = "closed"
            /\ \E caught \in BOOLEAN :
                  status' = IF caught THEN "Stopped by user." ELSE status
    /\ UNCHANGED <<ARGS, AVAILABLE, last_text, last_unrealized, text, current,
                   curr_unreal, delta, alert_msg, log, printed, snapshots, events,
                   polls, ran, failed, observed, fvars>>

NextInterrupt == Next \/ Interrupt

SpecInterrupt == Init /\ [][NextInterrupt]_vars

(***************************************************************************)
(* Properties of the polling loop                                          *)
(***************************************************************************)
SkipLine == "Navigation retry failed; skipping this cycle."

\* C1: a poll whose fetch succeeds produces no change event when the fetched
\* text, trimmed, equals the stored text, trimmed (nothing is logged, snapshot
\* or alerted, and the heartbeat is printed), and exactly one change event when
\* they differ; no other step produces one.
C1_ChangeDetection ==
    [][ /\ (pc = "fetch" /\ ~IsNone(last_text) /\ Strip(text') = Strip(Val(last_text)))
           => /\ events' = events /\ printed' = printed
              /\ log' = log /\ snapshots' = snapshots /\ ran' = ran
              /\ status' = "no change" /\ pc' = "sleep"
        /\ (pc = "fetch" /\ ~IsNone(last_text) /\ Strip(text') # Strip(Val(last_text)))
           => /\ events' = events + 1
              /\ printed' = Append(printed, Strip(text'))
              /\ pc' = "sinks"
        /\ pc # "fetch" => events' = events
      ]_vars

\* a heartbeat on a text that differs from the observation before it only in
\* the surrounding whitespace, after a change event
C1_Witness ==
    /\ pc = "sleep" /\ status = "no change"
    /\ events >= 1
    /\ text # current /\ current = Val(last_text)

\* the aggregate P&L of the change cycle in progress and of the observation before it
CurrentPnl == extract_unrealized_pnl(current)
PreviousPnl == extract_unrealized_pnl(Strip(Val(last_text)))

\* the aggregate P&L of the latest earlier observation that has one
LastDefinedPnl ==
    LET having == { i \in 1..Len(observed) : ~IsNone(extract_unrealized_pnl(observed[i])) }
    IN  IF having = {} THEN None
        ELSE extract_unrealized_pnl(observed[CHOOSE i \in having : \A j \in having : j <= i])

DeltaAgainst(prev) ==
    /\ IsNone(delta) <=> (IsNone(prev) \/ IsNone(CurrentPnl))
    /\ ~IsNone(delta) => Val(delta) = Val(CurrentPnl) - Val(prev)
    /\ alert_msg.generic <=> IsNone(delta)
    /\ alert_msg.delta = delta

\* C2 as stated: in a change cycle the delta is defined exactly when the
\* previous observation and the current one both have an aggregate P&L, and
\* is then their difference; otherwise the alert message is the generic one.
C2_DeltaAgainstPrevious ==
    pc \in {"sinks", "update"} => DeltaAgainst(PreviousPnl)

\* C2 as amended: in a change cycle the delta is defined exactly when the
\* current observation has an aggregate P&L and some earlier observation had
\* one, and is then the current value minus the value of the latest earlier
\* observation that had one; otherwise the alert message is the generic one.
C2_DeltaAgainstLastDefined ==
    pc \in {"sinks", "update"} => DeltaAgainst(LastDefinedPnl)

\* a delta computed across an observation that had no aggregate P&L
C2_Witness ==
    /\ pc = "update"
    /\ ~IsNone(delta)
    /\ IsNone(PreviousPnl)

\* C3 as stated: the log receives one line at initialization, carrying the
\* trimmed initial text, and one line per detected change, so that after
\* initialization and k change events it holds k+1 lines.
C3_InitAndChangeLines ==
    pc \in {"sleep", "backoff", "fetch"} =>
        /\ Len(log) = events + 1
        /\ log[1] = observed[1]

\* C3 as amended: the log receives no line at initialization, one line
\* carrying the trimmed current text in each change cycle whose append is
\* reached and succeeds, and no line in any other step; so after
\* initialization and k change events it holds at most k lines.
C3_ChangeLinesOnly ==
    [][ /\ pc \in {"goto", "scrape"} => log' = << >>
        /\ (pc = "sinks" /\ "log" \in ran' \ failed')
           => log' = Append(log, current)
        /\ ~(pc = "sinks" /\ "log" \in ran' \ failed') => log' = log
        /\ Len(log') <= events'
        /\ pc' = "update" => failed' # {} \/ Len(log') = Len(log) + 1
      ]_vars

\* initialization and two change events behind, and two lines in the log
C3_Witness ==
    /\ pc = "sleep"
    /\ events = 2 /\ Len(observed) = 3
    /\ Len(log) = 2
    /\ log[1] = observed[2] /\ log[2] = observed[3]

\* C5: a failed reload leads to the backoff and one retry; a failed retry
\* skips the cycle, leaving the stored text and aggregate P&L, the log, the
\* snapshots and the alerts as they were, and the loop goes on to the next
\* poll; no failed navigation ends the loop.
C5_RetryThenSkip ==
    [][ /\ pc = "sleep" => pc' \in {"fetch", "backoff"}
        /\ pc = "backoff" =>
              /\ pc' \in {"fetch", "sleep"}
              /\ UNCHANGED <<last_text, last_unrealized, log, printed, snapshots,
                             events, ran, failed, observed, polls>>
        /\ (pc = "backoff" /\ pc' = "sleep") => status' = SkipLine
        /\ (pc' = "sleep" /\ polls' < MaxPolls) => (ENABLED Reload)'
      ]_vars

\* a poll that is fetching after the poll before it was skipped
C5_Witness ==
    /\ pc = "fetch"
    /\ status = SkipLine
    /\ polls >= 2

\* the sinks a change cycle has to run: the enabled ones, the table only when
\* there is a position to show
SinksToRun ==
    { s \in Sinks : Enabled(s) }
    \ (IF parse_positions(current).positions = << >> THEN {"visual"} ELSE {})

\* C6: in a change cycle a sink that raises keeps no other enabled sink from
\* running, and the stored text and aggregate P&L are still updated.
C6_SinksIsolated ==
    failed # {} => (pc = "update" /\ ran = SinksToRun)

\* C12: no failure of a collaborator and no malformed text ends the monitor:
\* run_monitor is left only on an external interrupt, never on an exception.
C12_OnlyInterruptEnds ==
    pc \in {"raised", "stopped"} => pc = "stopped"

C14_StateUpdate ==
    [][ /\ (pc = "update" /\ pc' = "sleep")
           => /\ last_text' = Some(Strip(text))
              /\ last_unrealized'
                   = (IF IsNone(extract_unrealized_pnl(Strip(text)))
                      THEN last_unrealized
                      ELSE extract_unrealized_pnl(Strip(text)))
        /\ (pc \in {"sleep", "backoff", "fetch", "sinks"} \/ pc' # "sleep")
           => UNCHANGED <<last_text, last_unrealized>>
        /\ ~IsNone(last_unrealized) => ~IsNone(last_unrealized')
      ]_vars

\* a change cycle has ended on a text without aggregate P&L, stored with the
\* aggregate P&L of an earlier text
C14_Witness ==
    /\ pc = "sleep" /\ events >= 1
    /\ status = "Positions updated!"
    /\ last_text = Some(Strip(text))
    /\ IsNone(extract_unrealized_pnl(Val(last_text)))
    /\ ~IsNone(last_unrealized)

RECURSIVE IsSubSeq(_, _)
\* the lines of a are lines of b, in their order
IsSubSeq(a, b) ==
    IF a = << >> THEN TRUE
    ELSE IF b = << >> THEN FALSE
    ELSE IF Head(a) = Head(b) THEN IsSubSeq(Tail(a), Tail(b))
    ELSE IsSubSeq(a, Tail(b))

\* C15 as stated: at the end of every cycle no two consecutive lines of the
\* log carry the same text, the first line differs from the trimmed initial
\* text, and the stored text equals the text of the latest record emitted.
C15_LogLinesDiffer ==
    pc = "sleep" =>
        /\ \A i \in 1..(Len(log) - 1) : log[i] # log[i + 1]
        /\ Len(log) >= 1 => log[1] # printed[1]
        /\ Val(last_text) = printed[Len(printed)]

\* C15 as amended: at the end of every cycle no two consecutive records
\* emitted (the initial payload and the change payloads, as printed) carry the
\* same text; the lines of the log are change records in their order, all of
\* them when every append ran and succeeded; and the stored text, trimmed,
\* equals the text of the latest record emitted.
C15_RecordsDiffer ==
    pc = "sleep" =>
        /\ \A i \in 1..(Len(printed) - 1) : printed[i] # printed[i + 1]
        /\ IsSubSeq(log, Tail(printed))
        /\ Len(log) = events => log = Tail(printed)
        /\ Strip(Val(last_text)) = printed[Len(printed)]

\* after a change whose append failed, the first line of the log is the
\* trimmed initial text
C15_Witness ==
    /\ pc = "sleep" /\ events = 2
    /\ Len(log) = 1
    /\ log[1] = printed[1]

(***************************************************************************)
(* Properties of the text functions                                        *)
(***************************************************************************)
Returned == ~IsNone(result)
\* a number written in hundredths, in the units of the model
Hundredths(n) == n * (Scale \div 100)

\* C4: extract_unrealized_pnl returns a signed value: when the Unrealized label
\* is followed on its line by a dollar amount, "-$X" gives -X and "+$X" or "$X"
\* gives +X.
C4_SignedValue ==
    Returned =>
        \A l \in { "Unrealized P&L:", "UNREALIZED" }, g \in { " ", " total " },
           sg \in PnlSigns, a \in { m \in PnlAmounts : m.text # "$ 7" }, tl \in PnlTails :
            input = l \o g \o sg \o a.text \o tl
            => Val(result) = Some(IF sg = "-" THEN 0 - Hundredths(a.hundredths)
                                  ELSE Hundredths(a.hundredths))

C7Block ==
    "Entry Time: 9:15:00 Side: LONG Entry Price: $1,234.56 Leverage: 10X Unrealized P&L: +$56.78"

\* C7: parse_positions extracts every labelled field of a block: for the block
\* with Side: LONG, Entry Price: $1,234.56, Leverage: 10X and Unrealized P&L:
\* +$56.78 it returns one position with side Long, entry price 1234.56,
\* leverage 10X and pnl_value 56.78.
C7_LabelledFields ==
    (Returned /\ input = C7Block) =>
        /\ Len(Val(result).positions) = 1
        /\ Val(result).positions[1].side = "Long"
        /\ Val(result).positions[1].entry_price \in { "1234.56", "1,234.56" }
        /\ Val(result).positions[1].leverage = "10X"
        /\ Val(result).positions[1].pnl_value = Some(Hundredths(5678))

\* where the delimiters of the text start
DelimiterStarts(t) == { i \in 1..Len(t) : EntryTimeEnd(t, i) # 0 }

\* the text from its first delimiter on
WithoutHeader(t) == SubSeq(t, Min(DelimiterStarts(t)), Len(t))

C8_CountAndHeader ==
    /\ Len(Val(result).positions) <= Cardinality(DelimiterStarts(input))
    /\ DelimiterStarts(input) = {} => Val(result).positions = << >>
    /\ DelimiterStarts(input) # {}
       => parse_positions(WithoutHeader(input)).positions = Val(result).positions

\* C8 as stated: at most N positions for N delimiters, nothing from the text
\* before the first delimiter, and every position has a non-empty side or a
\* pnl_value that is not None.
C8_SideOrPnlValue ==
    Returned =>
        /\ C8_CountAndHeader
        /\ \A n \in 1..Len(Val(result).positions) :
              \/ Val(result).positions[n].side # ""
              \/ ~IsNone(Val(result).positions[n].pnl_value)

\* C8 as amended: at most N positions for N delimiters, nothing from the text
\* before the first delimiter, and every position has a non-empty side or a
\* non-empty pnl_text; its pnl_value may be None.
C8_SideOrPnlText ==
    Returned =>
        /\ C8_CountAndHeader
        /\ \A n \in 1..Len(Val(result).positions) :
              \/ Val(result).positions[n].side # ""
              \/ Val(result).positions[n].pnl_text # ""

\* a text with a header that carries a P&L of its own, and blocks of which one
\* has a P&L text that is no number
C8_Witness ==
    /\ Returned
    /\ LitAt(input, 1, "ACTIVE POSITIONS")
    /\ Len(Val(result).positions) >= 2
    /\ \E n \in 1..Len(Val(result).positions) :
          /\ IsNone(Val(result).positions[n].pnl_value)
          /\ Val(result).positions[n].pnl_text # ""

\* the rows of rows whose pnl_value is v, in their order
RowsWithValue(rows, v) ==
    LET Same(r) == r.pnl_value = v
    IN  SelectSeq(rows, Same)

\* C9: in the returned list every defined pnl_value precedes every undefined
\* one, the defined values are non-increasing, and rows that tie keep the
\* order of their blocks.
C9_SortedStable ==
    Returned =>
        LET out == Val(result).positions
            blocks == results_unsorted(input)
        IN  /\ Len(out) = Len(blocks)
            /\ \A i, j \in 1..Len(out) :
                  i < j =>
                    /\ IsNone(out[i].pnl_value) => IsNone(out[j].pnl_value)
                    /\ (~IsNone(out[i].pnl_value) /\ ~IsNone(out[j].pnl_value))
                       => Val(out[i].pnl_value) >= Val(out[j].pnl_value)
            /\ \A n \in 1..Len(blocks) :
                  RowsWithValue(out, blocks[n].pnl_value)
                    = RowsWithValue(blocks, blocks[n].pnl_value)

\* three rows or more, moved by the sort, with a tie among the defined values
\* and a row without a value
C9_Witness ==
    /\ Returned
    /\ Len(Val(result).positions) >= 3
    /\ Val(result).positions # results_unsorted(input)
    /\ IsNone(Val(result).positions[Len(Val(result).positions)].pnl_value)
    /\ \E i, j \in 1..Len(Val(result).positions) :
          /\ i < j
          /\ ~IsNone(Val(result).positions[i].pnl_value)
          /\ Val(result).positions[i].pnl_value = Val(result).positions[j].pnl_value
          /\ Val(result).positions[i] # Val(result).positions[j]

\* the symbol each ticker field and each price field of the inputs stands for
TickerSymbol(k) ==
    IF k = "DOGE " THEN "DOGE" ELSE IF k = "Symbol: eth " THEN "ETH" ELSE ""
PriceSymbol(pr) ==
    IF pr \in { "Entry Price: $1,234.56 ", "Entry Price: 2500 " } THEN "ETH"
    ELSE IF pr = "Entry Price: 75000 " THEN "BTC"
    ELSE IF pr = "Entry Price: 7.5 " THEN "SOL"
    ELSE ""

\* C10: a whole-word ticker of the supported set is the symbol; without one,
\* the Entry Price decides: ETH in [1000, 5000), BTC in [50000, 150000), SOL
\* in [0.5, 10), and the empty symbol otherwise.
C10_SymbolResolution ==
    (Returned /\ input \in FieldInputs) =>
        \A k \in TickerFields, sd \in SideFields, pr \in PriceFields,
           lv \in LeverageFields, pl \in PnlFields :
            ( /\ input = "Entry Time: 9:15:00 " \o k \o sd \o pr \o lv \o pl
              /\ Val(result).positions # << >> )
            => Val(result).positions[1].symbol
                 = (IF TickerSymbol(k) # "" THEN TickerSymbol(k) ELSE PriceSymbol(pr))

(***************************************************************************)
(* Properties of the section locator                                       *)
(***************************************************************************)
\* the script ran on a page with a header
Located == Returned /\ Val(result).evaluated /\ headerCandidates(input) # {}
Found == Val(result).found

\* the levels from the header to its second ancestor, and from the header to the root
WithinTwoLevels == { k \in header(input)..Len(input.levels) : k <= header(input) + 2 }
AllLevels == header(input)..Len(input.levels)

\* the text of the first substantial following sibling at the nearest of the
\* levels ks that has one
NearestSiblingText(ks) ==
    LET k == Min({ j \in ks : Substantial(input, j) # 0 })
    IN  Strip(input.levels[k].after[Substantial(input, k)])

\* the fallback: the text of the nearest section, article or div from the
\* header outwards, not empty, with a reference to it
FallbackReturned ==
    /\ Found.text = getText(input, closest(input, header(input)))
    /\ Found.text # ""
    /\ Found.selector = Some(Marked)

\* over the levels ks: a substantial sibling at the nearest level wins, and
\* without one the fallback is returned
Cascade(ks) ==
    IF \E j \in ks : Substantial(input, j) # 0
    THEN Found.text = NearestSiblingText(ks) /\ Found.selector = Some(Marked)
    ELSE FallbackReturned

\* C11 as stated: with a header, when neither its following siblings nor
\* those of its first two ancestors hold an element of 40 characters or more,
\* the locator returns the text of the header's nearest section, article or
\* div, and a reference to it; an earlier step that succeeds wins.
C11_FallbackAfterTwoLevels ==
    Located => Cascade(WithinTwoLevels)

\* C11 as amended: with a header, when neither its following siblings nor
\* those of any of its ancestors, up to the root, hold an element of 40
\* characters or more, the locator returns the text of the nearest section,
\* article or div from the header outwards (the header itself when it is one,
\* or when there is none), not empty, and a reference to it; otherwise it
\* returns the first such sibling at the nearest level that has one.
C11_FallbackAfterAllLevels ==
    Located => Cascade(AllLevels)

\* the fallback taken under two ancestors or more, with a text short of 40 characters
C11_Witness ==
    /\ Located
    /\ Len(input.levels) >= header(input) + 2
    /\ \A j \in AllLevels : Substantial(input, j) = 0
    /\ FallbackReturned
    /\ Len(Found.text) < 40

====
